---- MODULE Spec2Model ----
(***************************************************************************)
(* Model of create_channles.py: a one-shot batch job that reads two JSON   *)
(* documents, lists the existing Slack channels, refuses to run when a     *)
(* desired name already exists, and otherwise provisions each desired      *)
(* channel (conversations.create, conversations.setPurpose,                *)
(* conversations.invite), pausing after each one.                          *)
(*                                                                         *)
(* The run is sequential.  Every remote call is one step; its response is  *)
(* chosen by the environment.  `trace` records every request issued and    *)
(* every time.sleep, in program order.                                     *)
(***************************************************************************)
EXTENDS Naturals, Sequences, FiniteSets

\* Longest desired channel list explored.
MaxChannels == 3

\* Channel names that occur in channels.json or in the workspace.
Names == {"proj-a", "proj-b"}

\* A channels.json entry that has no "name" key.
NoName == "<no name>"

EntryNames == Names \cup {NoName}

\* What a file read can be: absent, not JSON, not UTF-8, or parsed.
FileKinds == {"missing", "badjson", "badutf8", "ok"}

\* What a parsed init_invite_users.json can hold: a "users" list of
\* strings, no "users" key, or a "users" list with a non-string element.
UsersShapes == {"users", "nousers", "badelems"}

\* What a remote call can come back with: ok:true, an exception raised by
\* requests.get/post itself, an HTTP error status (raise_for_status), or an
\* ok:false envelope.
Responses == {"ok", "transport", "http", "okfalse"}

ChannelLists == UNION {[1..n -> EntryNames] : n \in 0..MaxChannels}

VARIABLES
    channels_json,           \* the file channels.json: [kind, data]
    init_invite_users_json,  \* the file init_invite_users.json: [kind, shape]
    pc,                      \* position of main()
    channels_list,           \* main(): channels_list
    invite_users_list,       \* main(): invite_users_list (its shape)
    existing_channel_names,  \* main(): existing_channel_names
    j,                       \* index of the conflict-check loop (line 151)
    i,                       \* index of the creation loop (line 158); 0 before it
    success,                 \* how the last create_channel call ended
    outcome,                 \* how main() ended
    remote,                  \* channels created in the workspace by this run
    trace                    \* requests issued and sleeps taken, in order

vars == <<channels_json, init_invite_users_json, pc, channels_list,
          invite_users_list, existing_channel_names, j, i, success,
          outcome, remote, trace>>

Call(op, ch, res) == [op |-> op, ch |-> ch, res |-> res]

Init ==
    /\ channels_json \in
          {[kind |-> k, data |-> <<>>] : k \in FileKinds \ {"ok"}}
          \cup {[kind |-> "ok", data |-> d] : d \in ChannelLists}
    /\ init_invite_users_json \in
          {[kind |-> k, shape |-> "none"] : k \in FileKinds \ {"ok"}}
          \cup {[kind |-> "ok", shape |-> s] : s \in UsersShapes}
    /\ pc = "load"
    /\ channels_list = <<>>
    /\ invite_users_list = "none"
    /\ existing_channel_names = {}
    /\ j = 0
    /\ i = 0
    /\ success = "none"
    /\ outcome = "running"
    /\ remote = <<>>
    /\ trace = <<>>

\* The exception a file read raises, if any: open() raises IOError for a
\* missing file, json.load raises JSONDecodeError for text that is not JSON
\* and UnicodeDecodeError for bytes that are not UTF-8.
LoadError(kind) ==
    CASE kind = "missing" -> "IOError"
      [] kind = "badjson" -> "JSONDecodeError"
      [] kind = "badutf8" -> "UnicodeDecodeError"
      [] OTHER -> "none"

\* except (IOError, json.JSONDecodeError)
Caught_mut(err) == err \in {"IOError"}
Caught(err) == err \in {"IOError", "JSONDecodeError"}

\* How main() ends on a load error: a logged return when the except clause
\* catches it, an uncaught exception otherwise.
EndOfLoadError(err) == IF Caught(err) THEN "abort" ELSE "uncaught"

\* Where main() goes after the try block of lines 137-143: on to
\* get_existing_channels() when both reads succeeded, out otherwise.
AfterLoad_mut(e1, e2) == IF e1 # "none" THEN "done" ELSE "list"
AfterLoad(e1, e2) == IF e1 # "none" \/ e2 # "none" THEN "done" ELSE "list"

\* main(), lines 137-144: both files are read inside one try block,
\* channels.json first.
LoadConfig ==
    /\ pc = "load"
    /\ LET e1 == LoadError(channels_json.kind)
           e2 == LoadError(init_invite_users_json.kind)
           err == IF e1 # "none" THEN e1 ELSE e2
       IN  /\ pc' = AfterLoad(e1, e2)
           /\ outcome' = IF AfterLoad(e1, e2) = "done"
                         THEN EndOfLoadError(err)
                         ELSE outcome
           /\ channels_list' = IF e1 = "none"
                               THEN channels_json.data
                               ELSE channels_list
           /\ invite_users_list' = IF e1 = "none" /\ e2 = "none"
                                   THEN init_invite_users_json.shape
                                   ELSE invite_users_list
    /\ UNCHANGED <<channels_json, init_invite_users_json,
                   existing_channel_names, j, i, success, remote, trace>>

\* get_existing_channels(): the names of the channels it returns.  Every
\* failure (exception from requests.get, HTTP error status, ok:false) is
\* logged and answered with [].
ReturnedNames_mut(res, names) == names
ReturnedNames(res, names) == IF res = "ok" THEN names ELSE {}

\* main(), lines 147-148: one conversations.list request.
GetExistingChannels ==
    /\ pc = "list"
    /\ \E res \in Responses, names \in SUBSET Names :
          /\ trace' = Append(trace, Call("conversations.list", 0, res))
          /\ existing_channel_names' = ReturnedNames(res, names)
    /\ pc' = "check"
    /\ j' = 1
    /\ UNCHANGED <<channels_json, init_invite_users_json, channels_list,
                   invite_users_list, i, success, outcome, remote>>

\* line 152: channel["name"] in existing_channel_names
Collides_mut(name, existing) == FALSE
Collides_siblings(name, existing) ==
    \/ name \in existing
    \/ \E a, b \in 1..Len(channels_list) :
          a # b /\ channels_list[a] = name /\ channels_list[b] = name
Collides(name, existing) == name \in existing

\* main(), lines 151-155: one iteration of the conflict check.
ConflictCheck ==
    /\ pc = "check"
    /\ IF j > Len(channels_list)
       THEN /\ pc' = "loop"
            /\ i' = 1
            /\ UNCHANGED <<j, outcome>>
       ELSE IF channels_list[j] = NoName
       THEN /\ outcome' = "uncaught"     \* KeyError: 'name'
            /\ pc' = "done"
            /\ UNCHANGED <<j, i>>
       ELSE IF Collides(channels_list[j], existing_channel_names)
       THEN /\ outcome' = "abort"
            /\ pc' = "done"
            /\ UNCHANGED <<j, i>>
       ELSE /\ j' = j + 1
            /\ UNCHANGED <<pc, i, outcome>>
    /\ UNCHANGED <<channels_json, init_invite_users_json, channels_list,
                   invite_users_list, existing_channel_names, success,
                   remote, trace>>

\* create_channel(), lines 62-72 and 96-98: what follows the response to
\* conversations.create.  "go" continues to setPurpose; every failure
\* (RequestException from post or raise_for_status, ok:false) returns False.
AfterCreate_mut(res) == IF res \in {"ok", "okfalse"} THEN "go" ELSE "False"
AfterCreate(res) == IF res = "ok" THEN "go" ELSE "False"

\* create_channel(), lines 82-90 and 96-98: what follows the response to
\* conversations.setPurpose.
AfterSetPurpose_mut(res) == IF res \in {"ok", "okfalse"} THEN "go" ELSE "False"
AfterSetPurpose(res) == IF res = "ok" THEN "go" ELSE "False"

\* How create_channel() ends after conversations.invite.  requests.post
\* (line 116) is outside the try block of invite_users_to_channel, so the
\* RequestException it raises reaches create_channel's except clause
\* (line 96), which returns False.  An HTTP error status and an ok:false
\* response are raised inside the try block, re-raised as a plain Exception
\* (line 127), which create_channel does not catch.
AfterInvite_mut(res) == IF res = "ok" THEN "True" ELSE "raise"
AfterInvite(res) ==
    CASE res = "ok"        -> "True"
      [] res = "transport" -> "False"
      [] OTHER             -> "raise"

\* main(), lines 158-162, and create_channel(), lines 51-72: the loop takes
\* the next entry, evaluates invite_users_list['users'] and posts
\* conversations.create.
CreateRequest ==
    /\ pc = "loop"
    /\ i <= Len(channels_list)
    /\ IF invite_users_list = "nousers"
       THEN /\ outcome' = "uncaught"     \* KeyError: 'users'
            /\ pc' = "done"
            /\ UNCHANGED <<success, remote, trace>>
       ELSE \E res \in Responses :
              /\ trace' = Append(trace, Call("conversations.create", i, res))
              /\ remote' = IF res = "ok"
                           THEN Append(remote, channels_list[i])
                           ELSE remote
              /\ IF AfterCreate(res) = "go"
                 THEN /\ pc' = "setPurpose"
                      /\ UNCHANGED success
                 ELSE /\ pc' = "returned"
                      /\ success' = AfterCreate(res)
              /\ UNCHANGED outcome
    /\ UNCHANGED <<channels_json, init_invite_users_json, channels_list,
                   invite_users_list, existing_channel_names, j, i>>

\* create_channel(), lines 76-92: posts conversations.setPurpose.
SetPurposeRequest ==
    /\ pc = "setPurpose"
    /\ \E res \in Responses :
          /\ trace' = Append(trace, Call("conversations.setPurpose", i, res))
          /\ IF AfterSetPurpose(res) = "go"
             THEN /\ pc' = "invite"
                  /\ UNCHANGED success
             ELSE /\ pc' = "returned"
                  /\ success' = AfterSetPurpose(res)
    /\ UNCHANGED <<channels_json, init_invite_users_json, channels_list,
                   invite_users_list, existing_channel_names, j, i,
                   outcome, remote>>

\* create_channel(), lines 93-94, and invite_users_to_channel(): joins the
\* user ids (line 109; TypeError when an element is not a string, before
\* any request) and posts conversations.invite.
InviteRequest ==
    /\ pc = "invite"
    /\ IF invite_users_list = "badelems"
       THEN /\ success' = "raise"
            /\ UNCHANGED trace
       ELSE \E res \in Responses :
              /\ trace' = Append(trace, Call("conversations.invite", i, res))
              /\ success' = AfterInvite(res)
    /\ pc' = "returned"
    /\ UNCHANGED <<channels_json, init_invite_users_json, channels_list,
                   invite_users_list, existing_channel_names, j, i,
                   outcome, remote>>

\* main(), lines 162-166: True goes on, False is a logged return, and an
\* exception raised inside create_channel leaves main() uncaught.
MainOn_mut(result) ==
    CASE result = "True" -> "next"
      [] result = "False" -> "next"
      [] OTHER -> "uncaught"
MainOn(result) ==
    CASE result = "True" -> "next"
      [] result = "False" -> "abort"
      [] OTHER -> "uncaught"

\* main(), lines 164-169: the result of create_channel is examined; after a
\* success the loop sleeps one second and moves to the next entry.
Throttle_mut(t, ch) == t
Throttle(t, ch) == Append(t, Call("time.sleep", ch, "ok"))

CheckResult ==
    /\ pc = "returned"
    /\ IF MainOn(success) = "next"
       THEN /\ trace' = Throttle(trace, i)
            /\ i' = i + 1
            /\ pc' = "loop"
            /\ UNCHANGED outcome
       ELSE /\ outcome' = MainOn(success)
            /\ pc' = "done"
            /\ UNCHANGED <<i, trace>>
    /\ UNCHANGED <<channels_json, init_invite_users_json, channels_list,
                   invite_users_list, existing_channel_names, j, success,
                   remote>>

\* main(), line 158: the creation loop is exhausted and main() returns.
Finish ==
    /\ pc = "loop"
    /\ i > Len(channels_list)
    /\ outcome' = "success"
    /\ pc' = "done"
    /\ UNCHANGED <<channels_json, init_invite_users_json, channels_list,
                   invite_users_list, existing_channel_names, j, i,
                   success, remote, trace>>

Next ==
    \/ LoadConfig
    \/ GetExistingChannels
    \/ ConflictCheck
    \/ CreateRequest
    \/ SetPurposeRequest
    \/ InviteRequest
    \/ CheckResult
    \/ Finish

Spec == Init /\ [][Next]_vars

\* The exit status of the process: main() returning (line 173) ends the
\* interpreter with status 0, an uncaught exception with status 1.
ExitStatus(end) == IF end = "uncaught" THEN 1 ELSE 0

TypeOK ==
    /\ pc \in {"load", "list", "check", "loop", "setPurpose", "invite",
               "returned", "done"}
    /\ channels_list \in ChannelLists
    /\ existing_channel_names \subseteq Names
    /\ success \in {"none", "True", "False", "raise"}
    /\ outcome \in {"running", "success", "abort", "uncaught"}
    /\ (pc = "done") = (outcome # "running")

(***************************************************************************)
(* Vocabulary of the properties.                                           *)
(***************************************************************************)
Positions == 1..Len(trace)
Entries == 1..Len(channels_list)

ProvisioningOps ==
    {"conversations.create", "conversations.setPurpose", "conversations.invite"}

\* Request op was issued for entry ch.
Issued(op, ch) == \E n \in Positions : trace[n].op = op /\ trace[n].ch = ch

\* Request op for entry ch was answered ok:true.
Succeeded(op, ch) == Call(op, ch, "ok") \in {trace[n] : n \in Positions}

\* Position n holds a failed request op.
FailedAt(n, op) == trace[n].op = op /\ trace[n].res # "ok"

TimesIssued(op, ch) ==
    Cardinality({n \in Positions : trace[n].op = op /\ trace[n].ch = ch})

NoProvisioningCall == \A n \in Positions : trace[n].op \notin ProvisioningOps

\* Both documents were read and conversations.list has been issued.
Listed == trace # <<>>

\* Some desired name is among the names get_existing_channels() returned.
RemoteCollision == \E k \in Entries : channels_list[k] \in existing_channel_names

\* Two entries of the desired list carry the same name.
SiblingCollision ==
    \E a, b \in Entries :
        a < b /\ channels_list[a] = channels_list[b] /\ channels_list[a] # NoName

\* Both documents have the shape the program expects.
WellShaped ==
    /\ invite_users_list = "users"
    /\ \A k \in Entries : channels_list[k] # NoName

Stopped == pc = "done"

\* C1: once a desired name is among the names returned by
\* get_existing_channels(), the run never enters the creation loop: it ends
\* inside the conflict check (the logged return at the colliding entry, or
\* the KeyError of a nameless entry that precedes it), and no create,
\* setPurpose or invite request is issued for any entry.
C1_CollisionHaltsBatch ==
    RemoteCollision =>
        /\ NoProvisioningCall
        /\ remote = <<>>
        /\ i = 0
        /\ pc \in {"check", "done"}
        /\ Stopped =>
              \/ outcome = "abort" /\ channels_list[j] \in existing_channel_names
              \/ outcome = "uncaught" /\ channels_list[j] = NoName

\* A later entry collides, an earlier one does not: nothing was created.
C1_Witness ==
    /\ Stopped
    /\ outcome = "abort"
    /\ Len(channels_list) >= 2
    /\ channels_list[1] \notin existing_channel_names
    /\ channels_list[2] \in existing_channel_names
    /\ Len(trace) = 1

\* C2 as claimed: two entries with the same name halt the run before any
\* conversations.create request.
C2_SiblingCollisionHalts ==
    SiblingCollision =>
        \A n \in Positions : trace[n].op # "conversations.create"

\* C2 amended: desired names are compared only with the names returned by
\* get_existing_channels().  With two entries of the same name, the run
\* halts before any create request when some desired name is among the
\* returned names; when none is (and both documents are well shaped), the
\* conflict check passes and the create request of the first entry is issued.
C2_SiblingCollisionNotChecked ==
    SiblingCollision =>
        /\ RemoteCollision => NoProvisioningCall
        /\ (Listed /\ ~RemoteCollision /\ WellShaped /\ Stopped) =>
              Issued("conversations.create", 1)

\* Two entries of the same name, and the first one was created.
C2_Witness ==
    /\ SiblingCollision
    /\ Stopped
    /\ channels_list[1] = channels_list[2]
    /\ Succeeded("conversations.create", 1)
    /\ remote # <<>>

C4_SetPurposeFailureStopsBatch ==
    \A n \in Positions :
        FailedAt(n, "conversations.setPurpose") =>
            /\ n = Len(trace)
            /\ i = trace[n].ch
            /\ pc \in {"returned", "done"}
            /\ success = "False"
            /\ Len(remote) = i
            /\ remote[i] = channels_list[i]

\* The first of several entries was created, its setPurpose failed, and the
\* run is over.
C4_Witness ==
    /\ Stopped
    /\ Len(channels_list) >= 2
    /\ Len(trace) = 3
    /\ FailedAt(3, "conversations.setPurpose")
    /\ remote = <<channels_list[1]>>

\* C5: when conversations.create fails, create_channel returns False, the
\* request is issued once only, and nothing follows it: no setPurpose or
\* invite for that channel and no request for a later one.
C5_CreateFailureStopsBatch ==
    \A n \in Positions :
        FailedAt(n, "conversations.create") =>
            /\ n = Len(trace)
            /\ i = trace[n].ch
            /\ pc \in {"returned", "done"}
            /\ success = "False"
            /\ TimesIssued("conversations.create", i) = 1
            /\ Len(remote) = i - 1

\* The first of several entries failed to be created and the run is over.
C5_Witness ==
    /\ Stopped
    /\ Len(channels_list) >= 2
    /\ Len(trace) = 2
    /\ FailedAt(2, "conversations.create")

\* The conversations.list request failed.
ListFailed == Listed /\ trace[1].res # "ok"

AllProvisioningOk ==
    \A n \in Positions : trace[n].op \in ProvisioningOps => trace[n].res = "ok"

\* C6: when conversations.list fails, the set of existing names is empty,
\* the run is never stopped by a collision, and with well-shaped documents
\* and successful provisioning requests every desired entry is created.
C6_ListFailureReadsAsEmpty ==
    ListFailed =>
        /\ existing_channel_names = {}
        /\ outcome = "abort" => i >= 1
        /\ (WellShaped /\ pc \notin {"check"}) => i >= 1
        /\ (WellShaped /\ AllProvisioningOk /\ Stopped) =>
              /\ outcome = "success"
              /\ \A k \in Entries : Succeeded("conversations.create", k)

\* conversations.list failed and two entries were provisioned all the same.
C6_Witness ==
    /\ ListFailed
    /\ Stopped
    /\ outcome = "success"
    /\ Len(channels_list) >= 2
    /\ Len(remote) = Len(channels_list)

RECURSIVE ExpectedTrace(_)
\* The requests and sleeps of a run that provisions entries 1..n.
ExpectedTrace(n) ==
    IF n = 0
    THEN <<Call("conversations.list", 0, "ok")>>
    ELSE ExpectedTrace(n - 1) \o
         << Call("conversations.create", n, "ok"),
            Call("conversations.setPurpose", n, "ok"),
            Call("conversations.invite", n, "ok"),
            Call("time.sleep", n, "ok") >>

IsPrefix(s, t) == Len(s) <= Len(t) /\ \A n \in 1..Len(s) : s[n] = t[n]

\* C7: with well-shaped documents, no desired name among the existing ones
\* and every request answered ok, the run issues for entry 1, then entry 2,
\* ...: create, setPurpose, invite, then sleeps; it ends in success with
\* every entry created.
C7_HappyPathOrder ==
    (Listed /\ WellShaped /\ ~RemoteCollision
        /\ \A n \in Positions : trace[n].res = "ok") =>
        /\ IsPrefix(trace, ExpectedTrace(Len(channels_list)))
        /\ Stopped =>
              /\ trace = ExpectedTrace(Len(channels_list))
              /\ outcome = "success"
              /\ remote = channels_list

\* Two entries were provisioned in a run with no failure.
C7_Witness ==
    /\ Stopped
    /\ outcome = "success"
    /\ Len(channels_list) = 2
    /\ \A n \in Positions : trace[n].res = "ok"
    /\ Len(trace) = 9

\* A document is missing or cannot be decoded or parsed.
Unreadable(file) == file.kind # "ok"

ConfigErrorEnd ==
    /\ Stopped
    /\ \/ channels_json.kind \in {"missing", "badjson"}
       \/ /\ channels_json.kind = "ok"
          /\ init_invite_users_json.kind \in {"missing", "badjson"}

\* The run ended at a colliding entry of the conflict check.
CollisionEnd ==
    /\ Stopped
    /\ Listed
    /\ i = 0
    /\ j \in Entries
    /\ channels_list[j] \in existing_channel_names

\* The run ended after a failed request op.
FailureEnd(op) == Stopped /\ Listed /\ FailedAt(Len(trace), op)

Complete(k) ==
    /\ Succeeded("conversations.create", k)
    /\ Succeeded("conversations.setPurpose", k)
    /\ Succeeded("conversations.invite", k)

CreateIssued == {k \in Entries : Issued("conversations.create", k)}

HalfConfigured ==
    {k \in Entries : Succeeded("conversations.create", k) /\ ~Complete(k)}

\* C10: the entries for which create was issued are the first m entries of
\* the desired list; all of them but the last are complete; no request is
\* issued twice; at most one channel is half-configured; the workspace
\* holds exactly the channels whose create succeeded; and a run that ends
\* in success has completed every entry.
C10_PrefixOfCompletedEntries ==
    LET m == Cardinality(CreateIssued)
    IN  /\ CreateIssued = 1..m
        /\ \A k \in 1..m : k < m => Complete(k)
        /\ \A k \in Entries, op \in ProvisioningOps : TimesIssued(op, k) <= 1
        /\ Cardinality(HalfConfigured) <= 1
        /\ remote = [k \in {e \in Entries : Succeeded("conversations.create", e)}
                        |-> channels_list[k]]
        /\ (Stopped /\ outcome = "success") => \A k \in Entries : Complete(k)

\* Two entries are complete, the third is created but its setPurpose failed.
C10_Witness ==
    /\ Stopped
    /\ Len(channels_list) = 3
    /\ Complete(1)
    /\ Complete(2)
    /\ HalfConfigured = {3}

====
